---------------------------- MODULE Spec2Model ----------------------------
(***************************************************************************)
(* A model of the file-discovery engine of all-my-circuits                 *)
(* (src/src/walk.rs): FileWalker::new and FileWalker::walk with its filter *)
(* pipeline over the entries an ignore-aware directory traversal yields.   *)
(*                                                                         *)
(* A name (file name, folder name, extension) is a sequence of one-letter  *)
(* strings, so that "the text after the last dot", "strip the leading      *)
(* dots" and "ends with .txt" are computed, not assumed.  A path is the     *)
(* sequence of its components; an absolute path starts with the root       *)
(* component SLASH, a relative path does not.                              *)
(* An optional value is <<>> (None) or <<v>> (Some(v)).                    *)
(***************************************************************************)
EXTENDS Naturals, Sequences, FiniteSets

(***************************************************************************)
(* Bounds of the model.                                                    *)
(***************************************************************************)
\* At most this many leaves (files, symlinks) in a tree.
MaxFiles == 2
\* At most this many calls of walk on one walker.
MaxWalks == 2

(***************************************************************************)
(* Names used by the bounded filesystems and configurations.               *)
(***************************************************************************)
DOT == "."
\* The root component "/" of an absolute path.
SLASH == <<"/">>

N_rs == <<"r", "s">>
N_dot_rs == <<".", "r", "s">>
N_txt == <<"t", "x", "t">>
N_toml == <<"t", "o", "m", "l">>
N_a_rs == <<"a", ".", "r", "s">>
N_c_txt == <<"c", ".", "t", "x", "t">>
N_e == <<"e">>
N_d_rs == <<"d", ".", "r", "s">>
N_x_RS == <<"x", ".", "R", "S">>
N_h_rs == <<".", "h", ".", "r", "s">>
N_amc_toml == <<".", "a", "m", "c", ".", "t", "o", "m", "l">>
N_Cargo_toml == <<"C", "a", "r", "g", "o", ".", "t", "o", "m", "l">>
N_pkg_rs == <<"p", "k", "g", ".", "r", "s">>
N_lnk_rs == <<"l", "n", "k", ".", "r", "s">>
N_sub == <<"s", "u", "b">>
N_docs == <<"d", "o", "c", "s">>
N_target == <<"t", "a", "r", "g", "e", "t">>
N_targetx == <<"t", "a", "r", "g", "e", "t", "x">>
N_work == <<"w", "o", "r", "k">>
N_proj == <<"p", "r", "o", "j">>

(***************************************************************************)
(* Sequence helpers.                                                       *)
(***************************************************************************)
Range(s) == {s[i] : i \in 1..Len(s)}

IsPrefix(p, s) == Len(p) <= Len(s) /\ SubSeq(s, 1, Len(p)) = p

IsSuffix(p, s) ==
    Len(p) <= Len(s) /\ SubSeq(s, Len(s) - Len(p) + 1, Len(s)) = p

\* p occurs in s as a contiguous block of letters (str::contains).
IsSubstring(p, s) ==
    \E i \in 0..(Len(s) - Len(p)) : SubSeq(s, i + 1, i + Len(p)) = p

\* Index of the last "." of a name, 0 when it has none.
LastDot(name) ==
    LET dots == {i \in 1..Len(name) : name[i] = DOT}
    IN  IF dots = {} THEN 0 ELSE CHOOSE i \in dots : \A j \in dots : j <= i


(***************************************************************************)
(* std::path operations the walker calls, on paths as sequences of names.  *)
(***************************************************************************)
\* Path::is_absolute
is_absolute(path) == path # <<>> /\ path[1] = SLASH

\* Path::file_name: the last component, None for "/" and for "".
file_name(path) ==
    IF path = <<>> \/ path[Len(path)] = SLASH THEN <<>>
    ELSE <<path[Len(path)]>>

\* Path::extension: None when there is no file name, when the name is "..",
\* has no "." or only a leading one; otherwise the letters after the last
\* "." (possibly none, as in "foo.").
extension(path) ==
    IF file_name(path) = <<>> THEN <<>>
    ELSE LET name == file_name(path)[1]
             i == LastDot(name)
         IN  IF name = <<DOT, DOT>> \/ i <= 1 THEN <<>>
             ELSE <<SubSeq(name, i + 1, Len(name))>>

\* Path::ancestors: the path itself, its parent, ... up to "/" (absolute)
\* or "" (relative).
ancestors(path) ==
    {SubSeq(path, 1, n) : n \in (IF is_absolute(path) THEN 1 ELSE 0)..Len(path)}

\* Path::strip_prefix: Some(rest) when base is a component prefix.
strip_prefix(path, base) ==
    IF IsPrefix(base, path)
    THEN <<SubSeq(path, Len(base) + 1, Len(path))>>
    ELSE <<>>

\* Path::join: an absolute argument replaces the base.
join(base, rel) == IF is_absolute(rel) THEN rel ELSE base \o rel

\* str::trim_start_matches('.'): every leading "." is removed.
RECURSIVE trim_start_matches_dot(_)
trim_start_matches_dot(ext) ==
    IF ext # <<>> /\ ext[1] = DOT
    THEN trim_start_matches_dot(Tail(ext))
    ELSE ext

(***************************************************************************)
(* FileWalker.                                                             *)
(***************************************************************************)
EXCLUDED_FILES == <<N_amc_toml>>

\* Mutant: the extensions are stored as they were given.
FileWalker_new_untrimmed(extensions, excluded_folders) ==
    [extensions |-> extensions, excluded_folders |-> excluded_folders]

\* FileWalker::new: extensions lose their leading dots, folders are kept.
FileWalker_new(extensions, excluded_folders) ==
    [extensions |-> [i \in 1..Len(extensions) |->
                        trim_start_matches_dot(extensions[i])],
     excluded_folders |-> excluded_folders]

\* Mutant: the extension is compared without regard to letter case.
ToLower(c) == IF c = "R" THEN "r" ELSE IF c = "S" THEN "s" ELSE c

is_valid_extension_nocase(self, path) ==
    IF file_name(path) # <<>> /\ file_name(path)[1] \in Range(EXCLUDED_FILES)
    THEN FALSE
    ELSE IF extension(path) = <<>> THEN FALSE
         ELSE \E i \in 1..Len(self.extensions) :
                  self.extensions[i] =
                      [j \in 1..Len(extension(path)[1]) |->
                          ToLower(extension(path)[1][j])]

\* Mutant: the EXCLUDED_FILES test is left out.
is_valid_extension_noexcl(self, path) ==
    IF extension(path) = <<>> THEN FALSE
    ELSE \E i \in 1..Len(self.extensions) :
             self.extensions[i] = extension(path)[1]

\* FileWalker::is_valid_extension
is_valid_extension(self, path) ==
    IF file_name(path) # <<>> /\ file_name(path)[1] \in Range(EXCLUDED_FILES)
    THEN FALSE
    ELSE IF extension(path) = <<>> THEN FALSE
         ELSE \E i \in 1..Len(self.extensions) :
                  self.extensions[i] = extension(path)[1]

\* FileWalker::is_excluded_directory
is_excluded_directory(self, path) ==
    IF self.excluded_folders = <<>> THEN FALSE
    ELSE \E ancestor \in ancestors(path) :
             /\ file_name(ancestor) # <<>>
             /\ file_name(ancestor)[1] \in Range(self.excluded_folders)

\* Mutant: the relative path is never derived, the entry's path is used.
FileEntry_unstripped(entry_path, base_path) ==
    [absolute_path |-> entry_path, relative_path |-> entry_path]

\* The closure of the final map of walk: the record of a surviving entry.
FileEntry(entry_path, base_path) ==
    [absolute_path |-> entry_path,
     relative_path |-> IF strip_prefix(entry_path, base_path) # <<>>
                       THEN strip_prefix(entry_path, base_path)[1]
                       ELSE entry_path]

(***************************************************************************)
(* The bounded filesystems.  A tree is given by its leaves (regular files  *)
(* and symlinks, by path relative to the scan root); its directories are   *)
(* the proper prefixes of the leaves' paths.                               *)
(***************************************************************************)
CandidateFiles ==
    { <<N_a_rs>>, <<N_c_txt>>, <<N_e>>, <<N_dot_rs>>, <<N_x_RS>>, <<N_h_rs>>,
      <<N_amc_toml>>, <<N_Cargo_toml>>,
      <<N_sub, N_pkg_rs>>, <<N_sub, N_amc_toml>>,
      <<N_pkg_rs, N_d_rs>>,
      <<N_target, N_a_rs>>, <<N_docs, N_target, N_a_rs>>,
      <<N_targetx, N_a_rs>> }

CandidateLeaves ==
    [path : CandidateFiles, kind : {"file"}]
        \cup {[path |-> <<N_lnk_rs>>, kind |-> "symlink"]}

RECURSIVE SubsetsUpTo(_, _)
SubsetsUpTo(S, k) ==
    IF k = 0 THEN {{}}
    ELSE LET prev == SubsetsUpTo(S, k - 1)
         IN  prev \cup {t \cup {x} : t \in prev, x \in S}

\* The scan root's own absolute (canonical) location.
RootLocations == { <<SLASH, N_work, N_proj>>, <<SLASH, N_target, N_proj>> }

\* Ignore patterns: "*.ext" (any entry whose name ends with ".ext") and
\* "name/" (any directory of that name), both at any depth.
P_txt == [kind |-> "glob_ext", arg |-> N_txt]
P_target_dir == [kind |-> "dir_name", arg |-> N_target]
P_sub_dir == [kind |-> "dir_name", arg |-> N_sub]

\* An ignore file: the patterns of its well-formed lines, and whether
\* reading it reports an error (a malformed line, an unreadable file).
\* in_git: whether the root lies inside a git repository, which only
\* bears on how a .gitignore is picked up.
IgnoreSetups ==
    { [gitignore |-> <<>>, dot_ignore |-> <<>>, in_git |-> TRUE],
      [gitignore |-> <<[patterns |-> {P_txt, P_target_dir}, bad |-> FALSE]>>,
       dot_ignore |-> <<>>, in_git |-> TRUE],
      [gitignore |-> <<[patterns |-> {P_txt, P_target_dir}, bad |-> FALSE]>>,
       dot_ignore |-> <<>>, in_git |-> FALSE],
      [gitignore |-> <<[patterns |-> {P_txt}, bad |-> TRUE]>>,
       dot_ignore |-> <<>>, in_git |-> FALSE],
      [gitignore |-> <<>>,
       dot_ignore |-> <<[patterns |-> {P_sub_dir}, bad |-> FALSE]>>,
       in_git |-> FALSE] }

\* Directories whose listing may fail (permissions).
UnreadableCandidates == { <<N_sub>>, <<N_pkg_rs>> }

DirsOf(leaves) ==
    UNION {{SubSeq(l.path, 1, n) : n \in 1..(Len(l.path) - 1)} : l \in leaves}

\* No leaf lies below another leaf.
WellFormed(leaves) ==
    \A l, m \in leaves : l # m => ~IsPrefix(l.path, m.path)

Trees == {t \in SubsetsUpTo(CandidateLeaves, MaxFiles) : WellFormed(t)}

\* The combinations taken: a root below a directory named like an excluded
\* folder comes without ignore files and with every directory listable;
\* an unlistable directory comes with the .gitignore that reports an error.
Combined(f) ==
    /\ N_target \in Range(f.root) =>
          /\ f.ignores.gitignore = <<>> /\ f.ignores.dot_ignore = <<>>
          /\ f.unreadable = {}
    /\ f.unreadable # {} =>
          f.ignores.gitignore # <<>> /\ f.ignores.gitignore[1].bad

\* At most one directory of the tree cannot be listed.
Filesystems ==
    UNION { { f \in [root : RootLocations, leaves : {t},
                     unreadable : SubsetsUpTo(DirsOf(t) \cap
                                              UnreadableCandidates, 1),
                     ignores : IgnoreSetups] : Combined(f) } : t \in Trees }

\* The entry at a path relative to the root: the root itself and the
\* directories are "dir", a leaf has its own kind.
KindOf(fs, rel) ==
    IF \E l \in fs.leaves : l.path = rel
    THEN (CHOOSE l \in fs.leaves : l.path = rel).kind
    ELSE "dir"

NodesOf(fs) == {l.path : l \in fs.leaves} \cup DirsOf(fs.leaves)

Children(fs, rel) ==
    {p \in NodesOf(fs) : Len(p) = Len(rel) + 1 /\ IsPrefix(rel, p)}

(***************************************************************************)
(* The traversal library (ignore::WalkBuilder), as walk configures it.     *)
(* The bounded filesystems hold no global or repository exclude file and   *)
(* no negated pattern.                                                     *)
(***************************************************************************)
\* WalkBuilder::new: the library's defaults.
WalkBuilder_new(base_path) ==
    [root |-> base_path, hidden |-> TRUE, git_ignore |-> TRUE,
     require_git |-> TRUE, ignore |-> TRUE, explicit |-> {}]

\* The builder after the option calls of walk.
ConfiguredBuilder(base_path) ==
    [WalkBuilder_new(base_path) EXCEPT
        !.hidden = FALSE, !.git_ignore = TRUE, !.require_git = FALSE,
        !.ignore = TRUE]

\* gitignore_path.exists()
gitignore_exists(fs) == fs.ignores.gitignore # <<>>

\* WalkBuilder::add_ignore: the well-formed lines are added even when the
\* file reports an error.
add_ignore(builder, fs) ==
    [builder EXCEPT !.explicit = @ \cup fs.ignores.gitignore[1].patterns]

\* The error add_ignore returns.
add_ignore_error(fs) == fs.ignores.gitignore[1].bad

\* Mutant: require_git is left at its default and the root's .gitignore is
\* not added.
BuilderOf_require_git(fs, base_path) ==
    [WalkBuilder_new(base_path) EXCEPT !.hidden = FALSE]

\* The builder walk ends up with (the "if gitignore_path.exists()" block).
BuilderOf(fs, base_path) ==
    IF gitignore_exists(fs)
    THEN add_ignore(ConfiguredBuilder(base_path), fs)
    ELSE ConfiguredBuilder(base_path)

\* The patterns in force during the traversal.
RulesInForce(builder, fs) ==
    (IF /\ builder.git_ignore
        /\ (~builder.require_git \/ fs.ignores.in_git)
        /\ fs.ignores.gitignore # <<>>
     THEN fs.ignores.gitignore[1].patterns ELSE {})
    \cup (IF builder.ignore /\ fs.ignores.dot_ignore # <<>>
          THEN fs.ignores.dot_ignore[1].patterns ELSE {})
    \cup builder.explicit

Matches(pat, name, is_dir) ==
    IF pat.kind = "glob_ext" THEN IsSuffix(<<DOT>> \o pat.arg, name)
    ELSE is_dir /\ name = pat.arg

IsHidden(name) == name # <<>> /\ name[1] = DOT

\* Whether the traversal passes over the entry at rel (never the root):
\* it is neither yielded nor descended into.
Skips(builder, fs, rel) ==
    /\ rel # <<>>
    /\ \/ builder.hidden /\ IsHidden(rel[Len(rel)])
       \/ \E pat \in RulesInForce(builder, fs) :
              Matches(pat, rel[Len(rel)], KindOf(fs, rel) = "dir")

\* The items the iterator yields on reaching rel: nothing for a skipped
\* entry; the entry itself; and, for a directory that cannot be listed,
\* an error after it.
Yields(builder, fs, rel) ==
    IF Skips(builder, fs, rel) THEN <<>>
    ELSE LET entry == [ok |-> TRUE, path |-> join(builder.root, rel),
                       file_type |-> KindOf(fs, rel)]
         IN  IF KindOf(fs, rel) = "dir" /\ rel \in fs.unreadable
             THEN <<entry, [ok |-> FALSE, path |-> join(builder.root, rel),
                            file_type |-> "dir"]>>
             ELSE <<entry>>

\* The entries the traversal goes on to from rel.
Descends(builder, fs, rel) ==
    IF \/ Skips(builder, fs, rel)
       \/ KindOf(fs, rel) # "dir"
       \/ rel \in fs.unreadable
    THEN {}
    ELSE Children(fs, rel)

(***************************************************************************)
(* The iterator chain of walk, applied to the items one entry yields.      *)
(***************************************************************************)
\* .filter_map(|entry| entry.ok())
entry_ok(item) == item.ok

\* Mutant: the file type filter is left out.
is_file_any(item) == TRUE

\* .filter(|entry| entry.file_type().is_some_and(|ft| ft.is_file()))
is_file(item) == item.file_type = "file"

\* Mutant: the chain without the folder exclusion.
Passes_nofolder(self, item) ==
    /\ is_file(item)
    /\ is_valid_extension(self, item.path)

\* The three filters after filter_map.
Passes(self, item) ==
    /\ is_file(item)
    /\ ~is_excluded_directory(self, item.path)
    /\ is_valid_extension(self, item.path)

Pipeline(self, base_path, items) ==
    LET kept == SelectSeq(items, LAMBDA it : entry_ok(it) /\ Passes(self, it))
    IN  [i \in 1..Len(kept) |-> FileEntry(kept[i].path, base_path)]

(***************************************************************************)
(* State.                                                                  *)
(***************************************************************************)
VARIABLES
    fs,         \* the filesystem: unchanged by the program
    walker,     \* None, or Some(FileWalker)
    pc,         \* "idle", or "walking" inside a call of walk
    base_path,  \* walk's resolved root
    builder,    \* None, or Some(the configured WalkBuilder)
    stack,      \* the traversal: per open directory, the entries still due
    files,      \* the Vec<FileEntry> being collected
    visited,    \* the entries the iterator has yielded in this call
    stderr,     \* number of warnings printed
    unresolvable, \* whether the root of the call in progress was unresolvable
    returned    \* what each finished call of walk returned, call by call:
                \* Err, or Ok with the records as a bag (record -> count),
                \* whether the environment let the root be resolved, and
                \* the entries the iterator yielded during the call

\* The command-line run (main.rs).
VARIABLES
    main_pc,    \* the statement main is at; "none" when main is not run
    cli,        \* the parsed arguments
    cfg_file,   \* what Config::load found at the configuration path
    config,     \* None, or Some(Config)
    main_files, \* the Vec walk returned to main
    main_i,     \* the element of main_files the loop is at
    output,     \* the output file: None, or Some(its lines)
    output0,    \* the output file as it was when the run began
    trace       \* the steps main has taken, in order

main_vars == <<main_pc, cli, cfg_file, config, main_files, main_i, output,
               output0, trace>>

vars == <<fs, walker, pc, base_path, builder, stack, files, visited, stderr,
          unresolvable, returned, main_vars>>

\* Configurations handed to FileWalker::new.
ExtensionLists ==
    { <<N_rs>>, <<N_dot_rs, N_txt>>, <<N_toml>> }

FolderLists ==
    { <<>>, <<N_target, N_pkg_rs>> }

\* The directory argument of walk: ".", the root's path, a missing path.
DirArgs == {"dot", "root", "missing"}

\* The library on its own: a FileWalker is constructed and walk is called.
WalkerInit ==
    /\ fs \in Filesystems
    /\ walker = <<>>
    /\ pc = "idle"
    /\ base_path = <<>>
    /\ builder = <<>>
    /\ stack = <<>>
    /\ files = <<>>
    /\ visited = {}
    /\ stderr = 0
    /\ unresolvable = FALSE
    /\ returned = <<>>

Init ==
    /\ WalkerInit
    /\ main_pc = "none"
    /\ cli = [dir |-> "root"]
    /\ cfg_file = "unread"
    /\ config = <<>>
    /\ main_files = <<>>
    /\ main_i = 1
    /\ output = <<>>
    /\ output0 = <<>>
    /\ trace = <<>>

\* FileWalker::new(extensions, excluded_folders)
New(extensions, excluded_folders) ==
    /\ walker = <<>>
    /\ walker' = <<FileWalker_new(extensions, excluded_folders)>>
    /\ UNCHANGED <<fs, pc, base_path, builder, stack, files, visited, stderr,
                   returned, unresolvable>>

\* The environment's side of root resolution: the path does not exist, or
\* "." is asked for and the current directory cannot be obtained.
Unresolvable(dir, cwd_ok) == dir = "missing" \/ (dir = "dot" /\ ~cwd_ok)

\* Mutant: a failed resolution falls back to a path instead of returning.
ResolveRoot_lenient(dir, cwd_ok) == <<fs.root>>

\* Root resolution: std::env::current_dir() for ".", else canonicalize().
\* The process's current directory, when it can be had, is the scan root.
ResolveRoot(dir, cwd_ok) ==
    IF dir = "dot" THEN (IF cwd_ok THEN <<fs.root>> ELSE <<>>)
    ELSE IF dir = "root" THEN <<fs.root>>
    ELSE <<>>

\* The records of a Vec<FileEntry> with how often each occurs.
BagOf(vec) ==
    [r \in Range(vec) |-> Cardinality({i \in 1..Len(vec) : vec[i] = r})]

RECURSIVE DropEmpty(_)
DropEmpty(st) ==
    IF st # <<>> /\ st[Len(st)] = {}
    THEN DropEmpty(SubSeq(st, 1, Len(st) - 1))
    ELSE st

\* walk, up to the first pull on the iterator: resolve the root, configure
\* the builder, add the root's .gitignore; a failed resolution returns Err.
Walk_begin(dir, cwd_ok) ==
    /\ pc = "idle"
    /\ walker # <<>>
    /\ Len(returned) < MaxWalks
    /\ IF ResolveRoot(dir, cwd_ok) = <<>>
       THEN /\ returned' = Append(returned,
                                  [ok |-> FALSE, records |-> BagOf(<<>>),
                                   unresolvable |-> Unresolvable(dir, cwd_ok),
                                   visited |-> {}])
            /\ UNCHANGED <<pc, base_path, builder, stack, visited, stderr,
                           unresolvable>>
       ELSE /\ pc' = "walking"
            /\ base_path' = ResolveRoot(dir, cwd_ok)[1]
            /\ builder' = <<BuilderOf(fs, ResolveRoot(dir, cwd_ok)[1])>>
            /\ stderr' = IF gitignore_exists(fs) /\ add_ignore_error(fs)
                         THEN stderr + 1 ELSE stderr
            /\ stack' = << {<<>>} >>
            /\ visited' = {}
            /\ unresolvable' = Unresolvable(dir, cwd_ok)
            /\ UNCHANGED returned
    /\ UNCHANGED <<fs, walker, files>>

\* One pull on the iterator: the traversal reaches an entry still due in
\* the innermost open directory, and what it yields runs through the chain.
Walk_next ==
    /\ pc = "walking"
    /\ stack # <<>>
    /\ \E rel \in stack[Len(stack)] :
        LET rest == [stack EXCEPT ![Len(stack)] = @ \ {rel}]
            down == Descends(builder[1], fs, rel)
        IN  /\ stack' = DropEmpty(IF down = {} THEN rest
                                  ELSE Append(rest, down))
            /\ files' = files \o Pipeline(walker[1], base_path,
                                          Yields(builder[1], fs, rel))
            /\ visited' = IF Yields(builder[1], fs, rel) = <<>> THEN visited
                          ELSE visited \cup {rel}
    /\ UNCHANGED <<fs, walker, pc, base_path, builder, stderr, returned,
                   unresolvable>>

\* Mutant: the collection outlives the call and the next call adds to it.
Walk_return_keep ==
    /\ pc = "walking"
    /\ stack = <<>>
    /\ returned' = Append(returned,
                          [ok |-> TRUE, records |-> BagOf(files),
                           unresolvable |-> unresolvable,
                           visited |-> visited])
    /\ pc' = "idle"
    /\ base_path' = <<>>
    /\ builder' = <<>>
    /\ visited' = {}
    /\ UNCHANGED <<fs, walker, stack, files, stderr, unresolvable>>

\* .collect() and Ok(files): the iterator is exhausted and the collected
\* Vec moves to the caller.
Walk_return ==
    /\ pc = "walking"
    /\ stack = <<>>
    /\ returned' = Append(returned,
                          [ok |-> TRUE, records |-> BagOf(files),
                           unresolvable |-> unresolvable,
                           visited |-> visited])
    /\ pc' = "idle"
    /\ base_path' = <<>>
    /\ builder' = <<>>
    /\ files' = <<>>
    /\ visited' = {}
    /\ UNCHANGED <<fs, walker, stack, stderr, unresolvable>>

Next ==
    \/ \E e \in ExtensionLists, f \in FolderLists :
          New(e, f) /\ UNCHANGED main_vars
    \/ \E d \in DirArgs, c \in BOOLEAN :
          Walk_begin(d, c) /\ UNCHANGED main_vars
    \/ Walk_next /\ UNCHANGED main_vars
    \/ Walk_return /\ UNCHANGED main_vars

Spec == Init /\ [][Next]_vars

(***************************************************************************)
(* The command-line run: main.  The text of the prompt, of the delimiter   *)
(* and of a file, and the commit data get_git_info reports, are not        *)
(* modelled; a line of the output file is its kind and what it names.      *)
(* Writes to the created file succeed; File::create and the reading of a   *)
(* walked file may fail.                                                   *)
(***************************************************************************)
\* Config::default
Config_default ==
    [delimiter |-> "---", extensions |-> <<N_rs>>,
     llm_prompt |-> "default_llm_prompt", excluded_folders |-> <<>>]

\* The configurations a file at the configuration path parses to.
ConfigsInFiles ==
    { [delimiter |-> "===", extensions |-> e, llm_prompt |-> "prompt",
       excluded_folders |-> f] : e \in ExtensionLists, f \in FolderLists }

\* What is at the configuration path: nothing, a file that cannot be read
\* or parsed, or a file holding a configuration.
ConfigFiles ==
    { [state |-> "absent", parsed |-> <<>>],
      [state |-> "broken", parsed |-> <<>>] }
    \cup { [state |-> "valid", parsed |-> <<c>>] : c \in ConfigsInFiles }

\* Config::load: the default without a file, else Config::from_file;
\* None stands for Err.
Config_load(file) ==
    IF file.state = "absent" THEN <<Config_default>>
    ELSE file.parsed

\* The output file when the run begins: absent, or left by an earlier run.
InitialOutputs == { <<>>, << <<[kind |-> "old", path |-> <<>>]>> >> }

\* Mutant: any directory counts as version-controlled.
is_git_repository_any(dir, cwd_ok) == TRUE

\* is_git_repository: Repository::discover finds a repository at or above
\* the directory; it finds none from a path it cannot resolve.
is_git_repository(dir, cwd_ok) ==
    /\ ~Unresolvable(dir, cwd_ok)
    /\ fs.ignores.in_git

\* The six lines main writes for one record.
Section(cfg, file) ==
    << [kind |-> "delimiter", path |-> <<>>],
       [kind |-> "File", path |-> file.relative_path],
       [kind |-> "Last commit", path |-> <<>>],
       [kind |-> "Last update", path |-> <<>>],
       [kind |-> "delimiter", path |-> <<>>],
       [kind |-> "content", path |-> file.absolute_path] >>

\* The process starts: Cli::parse has the directory argument.
MainInit ==
    /\ WalkerInit
    /\ main_pc = "git"
    /\ cli \in [dir : DirArgs]
    /\ cfg_file = "unread"
    /\ config = <<>>
    /\ main_files = <<>>
    /\ main_i = 1
    /\ output0 \in InitialOutputs
    /\ output = output0
    /\ trace = <<>>

walker_vars == <<fs, walker, pc, base_path, builder, stack, files, visited,
                 stderr, unresolvable, returned>>

\* if !is_git_repository(&cli.dir) { return Err(..) }; setup_logging
Main_git(cwd_ok) ==
    /\ main_pc = "git"
    /\ trace' = Append(trace, "git")
    /\ main_pc' = IF is_git_repository(cli.dir, cwd_ok) THEN "config"
                  ELSE "exit_err"
    /\ UNCHANGED <<cli, cfg_file, config, main_files, main_i, output, output0>>
    /\ UNCHANGED walker_vars

\* let config = Config::load(&cli.config)?;
Main_config(file) ==
    /\ main_pc = "config"
    /\ trace' = Append(trace, "config")
    /\ cfg_file' = file.state
    /\ config' = Config_load(file)
    /\ main_pc' = IF Config_load(file) = <<>> THEN "exit_err" ELSE "new"
    /\ UNCHANGED <<cli, main_files, main_i, output, output0>>
    /\ UNCHANGED walker_vars

\* let walker = FileWalker::new(config.extensions, config.excluded_folders);
Main_new ==
    /\ main_pc = "new"
    /\ trace' = Append(trace, "new")
    /\ New(config[1].extensions, config[1].excluded_folders)
    /\ main_pc' = "walk"
    /\ UNCHANGED <<cli, cfg_file, config, main_files, main_i, output, output0>>

\* let files = walker.walk(&cli.dir)?;  -- the call, and its Err
Main_walk_begin(cwd_ok) ==
    /\ main_pc = "walk"
    /\ trace' = Append(trace, "walk")
    /\ Walk_begin(cli.dir, cwd_ok)
    /\ main_pc' = IF ResolveRoot(cli.dir, cwd_ok) = <<>> THEN "exit_err"
                  ELSE "walking"
    /\ UNCHANGED <<cli, cfg_file, config, main_files, main_i, output, output0>>

\* -- the traversal inside the call
Main_walk_next ==
    /\ main_pc = "walking"
    /\ Walk_next
    /\ UNCHANGED main_vars

\* -- and its Ok: the Vec is bound to files
Main_walk_return ==
    /\ main_pc = "walking"
    /\ Walk_return
    /\ main_files' = files
    /\ main_pc' = "create"
    /\ UNCHANGED <<cli, cfg_file, config, main_i, output, output0, trace>>

\* let mut output_file = fs::File::create(&cli.output)?;
Main_create(io_ok) ==
    /\ main_pc = "create"
    /\ trace' = Append(trace, "create")
    /\ IF io_ok
       THEN output' = << <<>> >> /\ main_pc' = "prompt"
       ELSE output' = output /\ main_pc' = "exit_err"
    /\ UNCHANGED <<cli, cfg_file, config, main_files, main_i, output0>>
    /\ UNCHANGED walker_vars

\* writeln!(output_file, "{}", config.llm_prompt)?;
Main_prompt ==
    /\ main_pc = "prompt"
    /\ trace' = Append(trace, "prompt")
    /\ output' = << Append(output[1], [kind |-> "prompt", path |-> <<>>]) >>
    /\ main_pc' = "sections"
    /\ UNCHANGED <<cli, cfg_file, config, main_files, main_i, output0>>
    /\ UNCHANGED walker_vars

\* One turn of for file in files { .. }: the file is read, then its
\* section is written; a file that cannot be read ends the run.
Main_section(io_ok) ==
    /\ main_pc = "sections"
    /\ main_i <= Len(main_files)
    /\ trace' = Append(trace, "section")
    /\ IF io_ok
       THEN /\ output' = << output[1] \o Section(config[1], main_files[main_i]) >>
            /\ main_i' = main_i + 1
            /\ main_pc' = main_pc
       ELSE /\ main_pc' = "exit_err"
            /\ UNCHANGED <<output, main_i>>
    /\ UNCHANGED <<cli, cfg_file, config, main_files, output0>>
    /\ UNCHANGED walker_vars

\* Ok(())
Main_return ==
    /\ main_pc = "sections"
    /\ main_i > Len(main_files)
    /\ main_pc' = "exit_ok"
    /\ UNCHANGED <<cli, cfg_file, config, main_files, main_i, output, output0,
                   trace>>
    /\ UNCHANGED walker_vars

MainNext ==
    \/ \E c \in BOOLEAN : Main_git(c)
    \/ \E file \in ConfigFiles : Main_config(file)
    \/ Main_new
    \/ \E c \in BOOLEAN : Main_walk_begin(c)
    \/ Main_walk_next
    \/ Main_walk_return
    \/ \E ok \in BOOLEAN : Main_create(ok)
    \/ Main_prompt
    \/ \E ok \in BOOLEAN : Main_section(ok)
    \/ Main_return

MainSpec == MainInit /\ [][MainNext]_vars

(***************************************************************************)
(* Vocabulary of the properties.                                           *)
(***************************************************************************)
Last(path) == path[Len(path)]

\* The finished calls of walk that returned Ok.
OkCalls == {k \in 1..Len(returned) : returned[k].ok}

\* The records call k returned.
RecordsOf(k) == DOMAIN returned[k].records

\* Every record returned so far or collected by the call in progress.
AllRecords == Range(files) \cup UNION {RecordsOf(k) : k \in OkCalls}

\* Call k returned the file at rel (relative to the scan root).
InResult(k, rel) ==
    \E r \in RecordsOf(k) : r.absolute_path = fs.root \o rel

\* The regular files of the tree.
RegularFiles == {l.path : l \in {m \in fs.leaves : m.kind = "file"}}

\* The names of the directories between the scan root and the file.
DirNamesBelowRoot(rel) == {rel[i] : i \in 1..(Len(rel) - 1)}

\* The traversal gets to rel: neither it nor a directory above it (below
\* the root) is passed over, and every directory above it can be listed.
Reachable(rel) ==
    \A n \in 1..Len(rel) :
        /\ ~Skips(BuilderOf(fs, fs.root), fs, SubSeq(rel, 1, n))
        /\ n < Len(rel) => SubSeq(rel, 1, n) \notin fs.unreadable

\* The letters after the last "." of a name.
AfterLastDot(name) == SubSeq(name, LastDot(name) + 1, Len(name))

(***************************************************************************)
(* C1: every record walk returns has a file name with an extension, and    *)
(* the text after its last "." is, letter for letter, one of the walker's  *)
(* normalized extensions; a name without an extension (no ".", or only a   *)
(* leading one) is never returned.                                         *)
(***************************************************************************)
C1_ExtensionInSet ==
    \A r \in AllRecords :
        /\ LastDot(Last(r.absolute_path)) > 1
        /\ AfterLastDot(Last(r.absolute_path)) \in Range(walker[1].extensions)

\* A walk returned records from a tree that also holds a file without "."
\* which the traversal reached.
C1_Witness ==
    \E k \in OkCalls :
        /\ RecordsOf(k) # {}
        /\ \E f \in RegularFiles :
              /\ LastDot(Last(f)) = 0
              /\ Reachable(f)
              /\ ~is_excluded_directory(walker[1], fs.root \o f)

(***************************************************************************)
(* C4: for every record, relative_path is not absolute and joining the     *)
(* scan root with it gives absolute_path.  (Every entry the traversal      *)
(* yields lies under the resolved root, so the fallback of the map, the    *)
(* entry's absolute path used as relative path, is never taken.)           *)
(***************************************************************************)
C4_RelativePaths ==
    \A r \in AllRecords :
        /\ ~is_absolute(r.relative_path)
        /\ join(fs.root, r.relative_path) = r.absolute_path

\* A walk returned a record for a file below a subdirectory.
C4_Witness ==
    \E k \in OkCalls : \E r \in RecordsOf(k) :
        /\ Len(r.relative_path) >= 2
        /\ is_absolute(r.absolute_path)

(***************************************************************************)
(* C5: a file named ".amc.toml" is never returned, at any depth and also   *)
(* when "toml" is a configured extension; any other reached ".toml" file   *)
(* that the folder exclusion lets through is returned then.                *)
(***************************************************************************)
C5_ConfigFileExcluded ==
    /\ \A r \in AllRecords : Last(r.absolute_path) # N_amc_toml
    /\ \A k \in OkCalls : \A f \in RegularFiles :
          ( /\ Last(f) # N_amc_toml
            /\ LastDot(Last(f)) > 1
            /\ AfterLastDot(Last(f)) = N_toml
            /\ N_toml \in Range(walker[1].extensions)
            /\ Reachable(f)
            /\ ~is_excluded_directory(walker[1], fs.root \o f) )
          => InResult(k, f)

\* With "toml" configured, a walk reached an ".amc.toml" below a
\* subdirectory and returned another ".toml" file.
C5_Witness ==
    \E k \in OkCalls :
        /\ N_toml \in Range(walker[1].extensions)
        /\ \E f \in RegularFiles :
              /\ Last(f) = N_amc_toml /\ Len(f) >= 2 /\ Reachable(f)
              /\ ~is_excluded_directory(walker[1], fs.root \o f)
        /\ \E r \in RecordsOf(k) :
              AfterLastDot(Last(r.absolute_path)) = N_toml

(***************************************************************************)
(* More vocabulary.                                                        *)
(***************************************************************************)
\* A record's path below the scan root, read off its absolute path.
RelOf(r) == SubSeq(r.absolute_path, Len(fs.root) + 1, Len(r.absolute_path))

\* rel, or a directory between the root and rel, matches one of the
\* patterns.
MatchedBy(patterns, rel) ==
    \E pat \in patterns, n \in 1..Len(rel) :
        Matches(pat, rel[n], n < Len(rel) \/ KindOf(fs, rel) = "dir")

RootIgnorePatterns ==
    IF fs.ignores.gitignore = <<>> THEN {}
    ELSE fs.ignores.gitignore[1].patterns

AllIgnorePatterns ==
    RootIgnorePatterns \cup
    (IF fs.ignores.dot_ignore = <<>> THEN {}
     ELSE fs.ignores.dot_ignore[1].patterns)

\* The walker's own two path filters accept the file at rel.
Accepted(rel) ==
    /\ ~is_excluded_directory(walker[1], fs.root \o rel)
    /\ is_valid_extension(walker[1], fs.root \o rel)

(***************************************************************************)
(* C6: when the scan root holds a .gitignore, no record is a file that     *)
(* one of its patterns matches ("*.txt": the file's name; "target/": a     *)
(* directory above it), whatever the extensions and folder exclusions,     *)
(* and whether or not the root lies in a git repository.                   *)
(***************************************************************************)
C6_RootIgnoreApplied ==
    \A r \in AllRecords : ~MatchedBy(RootIgnorePatterns, RelOf(r))

\* Outside a git repository and without folder exclusions, a walk ended
\* on a tree holding a file with a configured extension matched by a file
\* pattern and another one below a directory matched by a directory
\* pattern.
C6_Witness ==
    \E k \in OkCalls :
        /\ ~fs.ignores.in_git
        /\ walker[1].excluded_folders = <<>>
        /\ \E f, g \in RegularFiles :
              /\ MatchedBy({P_txt} \cap RootIgnorePatterns, f)
              /\ MatchedBy({P_target_dir} \cap RootIgnorePatterns, g)
              /\ is_valid_extension(walker[1], fs.root \o f)
              /\ is_valid_extension(walker[1], fs.root \o g)

(***************************************************************************)
(* C7: a call of walk returns an error, and no records, exactly when the   *)
(* root could not be resolved; otherwise it returns Ok with every file     *)
(* the traversal can get to and the walker's filters accept, also when a   *)
(* directory cannot be listed or the root's .gitignore reports an error.   *)
(***************************************************************************)
C7_OnlyRootResolutionFails ==
    \A k \in 1..Len(returned) :
        /\ ~returned[k].ok <=> returned[k].unresolvable
        /\ ~returned[k].ok => RecordsOf(k) = {}
        /\ returned[k].ok =>
              \A f \in RegularFiles :
                  Reachable(f) /\ Accepted(f) => InResult(k, f)

\* One call failed on its root; another, on a tree with an unlistable
\* directory and a .gitignore that reports an error, returned records.
C7_Witness ==
    /\ \E j \in 1..Len(returned) : ~returned[j].ok
    /\ \E k \in OkCalls :
          /\ RecordsOf(k) # {}
          /\ fs.unreadable # {}
          /\ fs.ignores.gitignore # <<>>
          /\ fs.ignores.gitignore[1].bad
          /\ stderr > 0

(***************************************************************************)
(* C9: two calls of walk on the same walker and the same tree return the   *)
(* same records, each as often (nothing of an earlier call is carried      *)
(* into a later one), and no step changes the walker once constructed.     *)
(***************************************************************************)
C9_Idempotent ==
    /\ [](\A i, j \in OkCalls : returned[i].records = returned[j].records)
    /\ [][walker # <<>> => walker' = walker]_vars

\* Two calls returned Ok with at least two records each.
C9_Witness ==
    \E i, j \in OkCalls :
        /\ i < j
        /\ Cardinality(RecordsOf(i)) >= 2
        /\ Cardinality(RecordsOf(j)) >= 2

(***************************************************************************)
(* C10: every record is a regular file of the tree, never a directory      *)
(* or a symlink; and a file below a directory is returned whenever the     *)
(* traversal can get to it and the walker's filters accept it.             *)
(***************************************************************************)
C10_OnlyRegularFiles ==
    /\ \A r \in AllRecords : RelOf(r) \in RegularFiles
    /\ \A k \in OkCalls : \A f \in RegularFiles :
          Len(f) >= 2 /\ Reachable(f) /\ Accepted(f) => InResult(k, f)

\* A walk returned a file from below a directory whose own name carries a
\* configured extension.
C10_Witness ==
    \E k \in OkCalls : \E f \in RegularFiles :
        /\ Len(f) >= 2
        /\ is_valid_extension(walker[1], fs.root \o SubSeq(f, 1, Len(f) - 1))
        /\ InResult(k, f)

(***************************************************************************)
(* The folder exclusion as the specification states it: some directory     *)
(* between the scan root and the file bears an excluded folder's name.     *)
(***************************************************************************)
ExcludedBelowRoot(rel) ==
    DirNamesBelowRoot(rel) \cap Range(walker[1].excluded_folders) # {}

\* No directory above rel (below the root) fails to list.
Listable(rel) ==
    \A n \in 1..(Len(rel) - 1) : SubSeq(rel, 1, n) \notin fs.unreadable

(***************************************************************************)
(* C2: with excluded folder name N, no returned file has a directory       *)
(* named exactly N between the scan root and itself; and a file with a     *)
(* directory above it whose name merely contains N, with no directory      *)
(* between the root and itself bearing an excluded name, is returned when  *)
(* it passes the other filters (a regular file the traversal gets to,      *)
(* not ".amc.toml", with a configured extension).                          *)
(***************************************************************************)
C2_ExactComponentOnly ==
    \A k \in OkCalls : \A N \in Range(walker[1].excluded_folders) :
        /\ \A r \in RecordsOf(k) : N \notin DirNamesBelowRoot(RelOf(r))
        /\ \A f \in RegularFiles :
              ( /\ \E d \in DirNamesBelowRoot(f) : d # N /\ IsSubstring(N, d)
                /\ ~ExcludedBelowRoot(f)
                /\ Reachable(f)
                /\ is_valid_extension(walker[1], fs.root \o f) )
              => InResult(k, f)

(***************************************************************************)
(* C3: the folder exclusion rejects a file if and only if a directory      *)
(* between the scan root and the file (its parent included) bears an       *)
(* excluded name; the root's own location and the file's own name play     *)
(* no part: of the regular files the traversal gets to whose name passes   *)
(* the extension filter, exactly those without such a directory are        *)
(* returned.                                                               *)
(***************************************************************************)
C3_ExclusionFromRootDown ==
    \A k \in OkCalls : \A f \in RegularFiles :
        Reachable(f) /\ is_valid_extension(walker[1], fs.root \o f)
            => (InResult(k, f) <=> ~ExcludedBelowRoot(f))

(***************************************************************************)
(* C8: walk is complete and free of duplicates: no record occurs twice,    *)
(* and every regular file below the root that no ignore pattern matches    *)
(* (itself or a directory above it), that lies below listable directories  *)
(* none of which bears an excluded name, that is not ".amc.toml" and has   *)
(* a configured extension, is returned exactly once, hidden or not.        *)
(***************************************************************************)
C8_CompleteNoDuplicates ==
    \A k \in OkCalls :
        /\ \A r \in RecordsOf(k) : returned[k].records[r] = 1
        /\ \A f \in RegularFiles :
              ( /\ ~MatchedBy(AllIgnorePatterns, f)
                /\ Listable(f)
                /\ ~ExcludedBelowRoot(f)
                /\ Last(f) # N_amc_toml
                /\ LastDot(Last(f)) > 1
                /\ AfterLastDot(Last(f)) \in Range(walker[1].extensions) )
              => /\ InResult(k, f)
                 /\ returned[k].records[FileEntry(fs.root \o f, fs.root)] = 1

(***************************************************************************)
(* The records a walk by the walker `self` returns on the tree: one for    *)
(* each regular file the traversal gets to that its two filters accept.    *)
(***************************************************************************)
RecordsFor(self) ==
    { FileEntry(fs.root \o f, fs.root) :
        f \in { g \in RegularFiles :
                  /\ Reachable(g)
                  /\ ~is_excluded_directory(self, fs.root \o g)
                  /\ is_valid_extension(self, fs.root \o g) } }

\* The extensions, each written with one leading ".".
Dotted(extensions) ==
    [i \in 1..Len(extensions) |-> <<DOT>> \o extensions[i]]

(***************************************************************************)
(* C11: the leading dot of a configured extension is irrelevant.  The      *)
(* extensions a walker holds never start with "."; and every walk has      *)
(* returned (seen whenever no call is in progress) exactly the records of  *)
(* the walker constructed from the same extensions written with a leading  *)
(* "." ("rs" against ".rs") and the same excluded folders, on every tree.  *)
(***************************************************************************)
C11_LeadingDotIrrelevant ==
    /\ walker # <<>> =>
          \A i \in 1..Len(walker[1].extensions) :
              walker[1].extensions[i] = <<>> \/ walker[1].extensions[i][1] # DOT
    /\ (pc = "idle" /\ OkCalls # {}) =>
          LET dotted == RecordsFor(FileWalker_new(Dotted(walker[1].extensions),
                                                  walker[1].excluded_folders))
          IN  \A k \in OkCalls : RecordsOf(k) = dotted

\* A walker holding "rs" and excluded folders returned records from a tree
\* where the folder exclusion rejected a reached ".rs" file.
C11_Witness ==
    \E k \in OkCalls :
        /\ walker[1].extensions = <<N_rs>>
        /\ walker[1].excluded_folders # <<>>
        /\ RecordsOf(k) # {}
        /\ \E f \in RegularFiles :
              /\ Reachable(f)
              /\ is_valid_extension(walker[1], fs.root \o f)
              /\ is_excluded_directory(walker[1], fs.root \o f)

(***************************************************************************)
(* A pruning traversal: the implemented one, except that it does not go    *)
(* below a directory whose name is an excluded folder's.  It reaches an    *)
(* entry when no directory from the root down to the entry's parent is     *)
(* passed over, unlistable or named so, and the entry itself is not        *)
(* passed over; what it reaches runs through the same chain.               *)
(***************************************************************************)
PrunedVisited(self) ==
    { n \in NodesOf(fs) \cup {<<>>} :
        \A i \in 1..Len(n) :
            /\ ~Skips(BuilderOf(fs, fs.root), fs, SubSeq(n, 1, i))
            /\ i < Len(n) =>
                  /\ SubSeq(n, 1, i) \notin fs.unreadable
                  /\ n[i] \notin Range(self.excluded_folders) }

PrunedRecords(self) ==
    UNION { Range(Pipeline(self, fs.root,
                           Yields(BuilderOf(fs, fs.root), fs, n))) :
            n \in PrunedVisited(self) }

(***************************************************************************)
(* C12: pruning is result-neutral.  Every walk has returned (seen          *)
(* whenever no call is in progress) exactly the records the pruning        *)
(* traversal returns for the same walker and tree, and the pruning         *)
(* traversal reaches no entry the walk did not reach: the two differ only  *)
(* in the entries visited.                                                 *)
(***************************************************************************)
C12_PruningResultNeutral ==
    (pc = "idle" /\ OkCalls # {}) =>
        LET reached == PrunedVisited(walker[1])
            pruned == PrunedRecords(walker[1])
        IN  \A k \in OkCalls :
                /\ RecordsOf(k) = pruned
                /\ reached \subseteq returned[k].visited

\* A walk returned records and reached a file with a configured extension
\* below a directory with an excluded name, which the pruning traversal
\* does not reach.
C12_Witness ==
    \E k \in OkCalls :
        /\ RecordsOf(k) # {}
        /\ \E n \in returned[k].visited \ PrunedVisited(walker[1]) :
              /\ KindOf(fs, n) = "file"
              /\ is_valid_extension(walker[1], fs.root \o n)

(***************************************************************************)
(* Vocabulary of the command-line run.                                     *)
(***************************************************************************)
\* The order of main's statements up to the loop.
StepOrder == <<"git", "config", "new", "walk", "create", "prompt">>

\* The directory is in no repository, whatever the current directory is.
NotInRepository == ~fs.ignores.in_git \/ cli.dir = "missing"

\* The file at the configuration path could not be read or parsed.
ConfigBroken == cfg_file = "broken"

\* The call of walk has returned Err.
WalkFailed == returned # <<>> /\ ~returned[1].ok

\* The paths named by the "File:" lines of the output file, in order.
FilesWritten ==
    IF output = <<>> THEN <<>>
    ELSE LET named == SelectSeq(output[1], LAMBDA l : l.kind = "File")
         IN  [j \in 1..Len(named) |-> named[j].path]

(***************************************************************************)
(* C13: the command-line run takes its steps in one order: repository      *)
(* check, configuration load, walker construction, walk, creation of the   *)
(* output file, prompt line, then one section per record in the order of   *)
(* the Vec walk returned.  When the directory is in no Git repository,     *)
(* the configuration does not load or walk returns an error, the run has   *)
(* ended or ends with an error at that step: the output file is never      *)
(* created or truncated and stays as it was.                               *)
(***************************************************************************)
C13_FixedOrderNoEarlyOutput ==
    /\ \A i \in 1..Len(trace) :
          trace[i] = IF i <= Len(StepOrder) THEN StepOrder[i] ELSE "section"
    /\ (NotInRepository \/ ConfigBroken \/ WalkFailed) =>
          /\ output = output0
          /\ "create" \notin Range(trace)
          /\ main_pc \in {"git", "exit_err"}
    /\ (NotInRepository /\ trace # <<>>) => trace = <<"git">>
    /\ ConfigBroken => trace = <<"git", "config">>
    /\ WalkFailed => trace = <<"git", "config", "new", "walk">>
    /\ main_pc \in {"create", "prompt", "sections", "exit_ok"} =>
          BagOf(main_files) = returned[1].records
    /\ main_pc \in {"git", "config", "new", "walk", "walking", "create"} =>
          output = output0
    /\ main_pc \in {"sections", "exit_ok"} =>
          /\ output[1][1].kind = "prompt"
          /\ FilesWritten =
                [j \in 1..(main_i - 1) |-> main_files[j].relative_path]
    /\ main_pc = "exit_ok" => Len(FilesWritten) = Len(main_files)

\* With an output file left by an earlier run, the repository check
\* passed, a configuration was loaded, walk returned an error and the run
\* ended with the file as it was.
C13_Witness ==
    /\ main_pc = "exit_err"
    /\ WalkFailed
    /\ config # <<>>
    /\ output0 # <<>>
    /\ output = output0

=============================================================================
